---- MODULE Spec2Model ----
(***************************************************************************)
(* Recommendation service: the batch fan-out controller                    *)
(* (Service.GetBatchRecommendations), the cache-aside orchestrator         *)
(* (Service.GetRecommendations, Service.AddWatchHistory) and the cache     *)
(* store (Cache.Get / Set / ClearUserCache).                               *)
(***************************************************************************)
EXTENDS Integers, Sequences, FiniteSets, TLC

(***************************************************************************)
(* Program constants (service package).                                    *)
(***************************************************************************)
defaultLimit == 10
maxLimit == 50
batchConcurrency == 10
batchRecLimit == 10

StatusSuccess == "success"
StatusFailed == "failed"

(***************************************************************************)
(* Bounds of the model.                                                    *)
(***************************************************************************)
\* number of GetBatchRecommendations calls the model holds
NumCalls == 2
\* users in the table in the small-page scenarios
MaxUsers == 4
\* page numbers requested in the small-page scenarios
MaxPage == 2
\* page sizes requested in the small-page scenarios
MaxBatchLimit == 3
\* how far the page size exceeds the admission cap in the gate scenarios
Overflow == 1

Calls == 1..NumCalls

Min(a, b) == IF a < b THEN a ELSE b

VARIABLES
    dbUsers,      \* users table: the set of user ids
    bpc,          \* per call: position of the controller
    bpage,        \* per call: page argument
    blimit,       \* per call: limit argument
    userIDs,      \* per call: ids of the page, in input order
    totalUsers,   \* per call: CountUsers result
    results,      \* per call: pre-allocated result slice
    sem,          \* per call: number of tokens in the semaphore channel
    wg,           \* per call: WaitGroup counter
    upc,          \* per call, per index: position of the unit goroutine
    injected,     \* per call: the <<user id, error>> failures the environment may inject
    uerr,         \* per call, per index: the error GetRecommendations returned to the unit
    bresp         \* per call: what the call returned

VARIABLES
    watched,      \* table user_watch_history: per user the watched content ids, most recent first
    cache,        \* the cache backend: key -> stored value
    rpc,          \* per request: position in GetRecommendations
    req,          \* per request: arguments (userID, limit as given, limit as clamped)
    ctx,          \* per request: the caller's context, "live" or "canceled"
    loc,          \* per request: locals of generateRecommendations
    ret,          \* per request: what GetRecommendations returned
    io,           \* per request: the cache, repository and model operations performed so far
    last,         \* per request slot: the previous returned call and what happened to its entry since
    pre,          \* per request: last, as it stood at the cache lookup
    liveReqs,     \* the request slots in use
    askUsers,     \* the user ids callers ask about
    apc,          \* position in AddWatchHistory
    areq,         \* arguments of AddWatchHistory
    scan,         \* keys the ClearUserCache iterator has yet to yield
    aret,         \* what AddWatchHistory returned
    cret,         \* ClearUserCache: the error it returned, and the keys its SCAN matched
    opsLeft       \* GetRecommendations and AddWatchHistory calls that may still start

VARIABLES
    spc,          \* position of a direct call of Client.Score
    scIn,         \* its ScoreInput
    scOut         \* what it returned, the scored candidates before the sort, and what went into the scores

batchVars == <<bpc, bpage, blimit, userIDs, totalUsers, results, sem, wg, upc, injected, uerr, bresp>>

cacheVars == <<watched, cache, rpc, req, ctx, loc, ret, io, last, pre, liveReqs, askUsers, apc, areq, scan, aret, cret, opsLeft>>

scoreVars == <<spc, scIn, scOut>>

vars == <<dbUsers, batchVars, cacheVars, scoreVars>>

(***************************************************************************)
(* Errors: an error is the chain of its wrappings (fmt.Errorf with %w),     *)
(* outermost first; nil is the empty chain.                                *)
(***************************************************************************)
Nil == <<>>

ErrUserNotFound == <<"user not found">>

ModelInferenceError == <<"*model.ModelInferenceError">>

ErrModelUnavailable == <<"recommendation model unavailable">>

DeadlineExceeded == "context deadline exceeded"

ContextCanceled == "context canceled"

BackendDown == "backend error"

\* errors.Is(err, target)
errorsIs(err, target) == \E i \in 1..Len(err) : err[i] = target

\* model.IsModelInferenceError: errors.As(err, *ModelInferenceError)
IsModelInferenceError(err) == errorsIs(err, ModelInferenceError[1])

\* fmt.Errorf(msg + ": %w", err)
Wrap(msg, err) == <<msg>> \o err

\* Handler.GetRecommendations: the error code written for a service error
HandlerErrorCode(err) == IF errorsIs(err, ErrUserNotFound[1]) THEN "user_not_found" ELSE IF errorsIs(err, ErrModelUnavailable[1]) THEN "model_unavailable" ELSE IF errorsIs(err, DeadlineExceeded) \/ errorsIs(err, ContextCanceled) THEN "request_timeout" ELSE "internal_error"

(***************************************************************************)
(* Repository: pagination and count.                                       *)
(***************************************************************************)
\* the ids of S in ascending order (ORDER BY id)
RECURSIVE SortedIds(_)
SortedIds(S) == IF S = {} THEN <<>> ELSE LET m == CHOOSE x \in S : \A y \in S : x <= y IN <<m>> \o SortedIds(S \ {m})

GetUserIDsPaginatedZeroBased(page, limit) == LET offset == page * limit  all == SortedIds(dbUsers) IN SubSeq(all, offset + 1, Min(offset + limit, Len(all)))

\* SELECT id FROM users ORDER BY id LIMIT limit OFFSET (page-1)*limit
GetUserIDsPaginated(page, limit) == LET offset == (page - 1) * limit  all == SortedIds(dbUsers) IN SubSeq(all, offset + 1, Min(offset + limit, Len(all)))

\* SELECT COUNT(*) FROM users
CountUsers == Cardinality(dbUsers)

(***************************************************************************)
(* Per-user unit of the batch.                                             *)
(***************************************************************************)
\* the zero value of domain.BatchUserResult (make([]BatchUserResult, n))
ZeroResult == [UserID |-> 0, Recommendations |-> <<>>, Status |-> "", Error |-> "", Message |-> ""]

\* errors GetRecommendations can return
ErrKinds == {ErrUserNotFound, ModelInferenceError, Wrap("fetch user", Wrap("query user", <<BackendDown>>)), Wrap("fetch user", Wrap("query user", <<ContextCanceled>>))}

\* beside a user id in injected: the orchestrator call fails every time for that user
Always == <<"always">>

\* what the orchestrator call of a unit can return for user uid in call c
UnitOutcomes(c, uid) == (IF <<uid, Always>> \in injected[c] THEN {} ELSE {[err |-> Nil, recs |-> <<uid>>]}) \cup {[err |-> e, recs |-> <<>>] : e \in {k \in ErrKinds : <<uid, k>> \in injected[c]}}

categorizeErrorNoModel(err) == IF errorsIs(err, ErrUserNotFound[1]) THEN <<"user_not_found", "user not found">> ELSE <<"internal_error", "an unexpected error occurred">>

categorizeError(err) == IF errorsIs(err, ErrUserNotFound[1]) THEN <<"user_not_found", "user not found">> ELSE IF IsModelInferenceError(err) THEN <<"model_inference_error", "recommendation model failed to generate a response">> ELSE <<"internal_error", "an unexpected error occurred">>

processUserForBatch(uid, out) == IF out.err # Nil THEN [UserID |-> uid, Recommendations |-> <<>>, Status |-> StatusFailed, Error |-> categorizeError(out.err)[1], Message |-> categorizeError(out.err)[2]] ELSE [UserID |-> uid, Recommendations |-> out.recs, Status |-> StatusSuccess, Error |-> "", Message |-> ""]

(***************************************************************************)
(* GetBatchRecommendations.                                                *)
(***************************************************************************)
\* s.repo.GetUserIDsPaginated: the page's ids, or the call fails
FetchUserIDs(c) ==
    /\ bpc[c] = "fetch"
    /\ \/ /\ userIDs' = [userIDs EXCEPT ![c] = GetUserIDsPaginated(bpage[c], blimit[c])]
          /\ bpc' = [bpc EXCEPT ![c] = "count"]
          /\ UNCHANGED bresp
       \/ /\ bresp' = [bresp EXCEPT ![c] = [err |-> Wrap("fetch user ids", <<BackendDown>>)]]
          /\ bpc' = [bpc EXCEPT ![c] = "returned"]
          /\ UNCHANGED userIDs
    /\ UNCHANGED <<dbUsers, scoreVars, bpage, blimit, totalUsers, results, sem, wg, upc, injected, uerr, cacheVars>>

SemCanSendOffByOne(c) == sem[c] <= batchConcurrency

\* the semaphore channel accepts a send while it holds fewer than cap tokens
SemCanSend(c) == sem[c] < batchConcurrency

WaitReturnsEarly(c) == wg[c] <= 1

\* wg.Wait returns when the counter is zero
WaitReturns(c) == wg[c] = 0

\* s.repo.CountUsers, then the dispatch loop: results allocated, one goroutine per
\* id, wg.Add(1) before each; a goroutine not yet scheduled stands at its acquire
CountAndDispatch(c) ==
    /\ bpc[c] = "count"
    /\ \/ /\ totalUsers' = [totalUsers EXCEPT ![c] = CountUsers]
          /\ results' = [results EXCEPT ![c] = [i \in 1..Len(userIDs[c]) |-> ZeroResult]]
          /\ wg' = [wg EXCEPT ![c] = Len(userIDs[c])]
          /\ upc' = [upc EXCEPT ![c] = [i \in 1..Len(userIDs[c]) |-> "acquire"]]
          /\ uerr' = [uerr EXCEPT ![c] = [i \in 1..Len(userIDs[c]) |-> Nil]]
          /\ bpc' = [bpc EXCEPT ![c] = "wait"]
          /\ UNCHANGED bresp
       \/ /\ bresp' = [bresp EXCEPT ![c] = [err |-> Wrap("count user", <<BackendDown>>)]]
          /\ bpc' = [bpc EXCEPT ![c] = "returned"]
          /\ UNCHANGED <<totalUsers, results, wg, upc, uerr>>
    /\ UNCHANGED <<dbUsers, scoreVars, bpage, blimit, userIDs, sem, injected, cacheVars>>

\* sem <- struct{}{}
Acquire(c, i) ==
    /\ bpc[c] = "wait"
    /\ i \in DOMAIN upc[c]
    /\ upc[c][i] = "acquire"
    /\ SemCanSend(c)
    /\ sem' = [sem EXCEPT ![c] = @ + 1]
    /\ upc' = [upc EXCEPT ![c][i] = "running"]
    /\ UNCHANGED <<dbUsers, scoreVars, bpc, bpage, blimit, userIDs, totalUsers, results, wg, injected, uerr, bresp, cacheVars>>

ResultIndexShared(idx) == 1

\* the slot this goroutine writes
ResultIndex(idx) == idx

\* the WaitGroup counter after the goroutine's deferred wg.Done
WgDone(n) == n - 1

SemReleaseForgotten(n) == n

\* the channel length after the goroutine's deferred <-sem
SemRelease(n) == n - 1

\* result := s.processUserForBatch(ctx, uid); results[idx] = result; then the
\* deferred release of the slot and the deferred wg.Done
RunUnit(c, i) ==
    /\ bpc[c] = "wait"
    /\ i \in DOMAIN upc[c]
    /\ upc[c][i] = "running"
    /\ \E out \in UnitOutcomes(c, userIDs[c][i]) :
          /\ results' = [results EXCEPT ![c][ResultIndex(i)] = processUserForBatch(userIDs[c][i], out)]
          /\ uerr' = [uerr EXCEPT ![c][i] = out.err]
    /\ sem' = [sem EXCEPT ![c] = SemRelease(@)]
    /\ wg' = [wg EXCEPT ![c] = WgDone(@)]
    /\ upc' = [upc EXCEPT ![c][i] = "done"]
    /\ UNCHANGED <<dbUsers, scoreVars, bpc, bpage, blimit, userIDs, totalUsers, injected, bresp, cacheVars>>

RECURSIVE CountStatus(_, _)
CountStatus(rs, st) == IF rs = <<>> THEN 0 ELSE (IF Head(rs).Status = st THEN 1 ELSE 0) + CountStatus(Tail(rs), st)

successCount(rs) == CountStatus(rs, StatusSuccess)

failedCount(rs) == Len(rs) - CountStatus(rs, StatusSuccess)

ResponseErrOnFailure(rs) == IF failedCount(rs) > 0 THEN <<"batch failed">> ELSE Nil

\* the error returned beside the response: nil, whatever the per-user results
ResponseErr(rs) == Nil

\* wg.Wait() returns, the summary is counted and the response returned
WaitAndSummarize(c) ==
    /\ bpc[c] = "wait"
    /\ WaitReturns(c)
    /\ bresp' = [bresp EXCEPT ![c] = [err |-> ResponseErr(results[c]), Page |-> bpage[c], Limit |-> blimit[c], TotalUsers |-> totalUsers[c], Results |-> results[c], SuccessCount |-> successCount(results[c]), FailedCount |-> failedCount(results[c])]]
    /\ bpc' = [bpc EXCEPT ![c] = "returned"]
    /\ UNCHANGED <<dbUsers, scoreVars, bpage, blimit, userIDs, totalUsers, results, sem, wg, upc, injected, uerr, cacheVars>>

(***************************************************************************)
(* Content table and scoring engine (model.Client).  Popularity and scores *)
(* are in thousandths; intermediate values of a score are in millionths.   *)
(***************************************************************************)
watchHistoryLimit == 50
candidatePoolSize == 100

\* times are counted in half days; a year of 365 days
Year == 730

\* now := time.Now() of a Score call
Now == 0

\* table content: popularity in thousandths, created_at relative to the time of the request
Catalogue == <<[ID |-> 1, Title |-> "Action Movie", Genre |-> "action", PopularityScore |-> 900, CreatedAt |-> Now], [ID |-> 2, Title |-> "Drama Movie", Genre |-> "drama", PopularityScore |-> 500, CreatedAt |-> Now - Year]>>

ContentIds == {Catalogue[i].ID : i \in 1..Len(Catalogue)}

ContentById(id) == Catalogue[CHOOSE i \in 1..Len(Catalogue) : Catalogue[i].ID = id]

\* genre -> share of the history, in millionths; genres not watched have no entry
calculateGenrePreferenceWeights(history) == [g \in {history[i].Genre : i \in 1..Len(history)} |-> (Cardinality({i \in 1..Len(history) : history[i].Genre = g}) * 1000000) \div Len(history)]

calculateRecencyFactorWholeDays(createdAt, now) == (1000000 * 365) \div (365 + (now - createdAt) \div 2)

\* 1 / (1 + days/365) with days the fractional days from createdAt to now, in millionths
calculateRecencyFactor(createdAt, now) == (1000000 * Year) \div (Year + (now - createdAt))

GenreWeightZeroDefault(content, genrePrefs) == IF content.Genre \in DOMAIN genrePrefs THEN genrePrefs[content.Genre] ELSE 0

\* genrePref, ok := genrePrefs[content.Genre]; if !ok { genrePref = 0.1 }, in millionths
GenreWeight(content, genrePrefs) == IF content.Genre \in DOMAIN genrePrefs THEN genrePrefs[content.Genre] ELSE 100000

\* popularity*0.4 + genre*0.35 + recency*0.15 + noise, in millionths
computeFinalScore(content, genrePrefs, noise) == content.PopularityScore * 400 + (GenreWeight(content, genrePrefs) * 35) \div 100 + (calculateRecencyFactor(content.CreatedAt, Now) * 15) \div 100 + noise

\* values of (rand.Float64()*0.1 - 0.05) * 0.1, in millionths
NoiseChoices == {-5000, 4999}

\* math.Round(score*1000) / 1000, in thousandths
Round3(micro) == (micro + 500) \div 1000

ScoreAll(input, noise) == LET prefs == calculateGenrePreferenceWeights(input.WatchHistory) IN [i \in 1..Len(input.Candidates) |-> [ContentID |-> input.Candidates[i].ID, Title |-> input.Candidates[i].Title, Genre |-> input.Candidates[i].Genre, PopularityScore |-> input.Candidates[i].PopularityScore, Score |-> Round3(computeFinalScore(input.Candidates[i], prefs, noise[i]))]]

\* the orders sort.Slice may leave: no later element has a greater score
SortedDesc(s) == LET n == Len(s) IN {[i \in 1..n |-> s[p[i]]] : p \in {q \in [1..n -> 1..n] : (\A i, j \in 1..n : i # j => q[i] # q[j]) /\ (\A i, j \in 1..n : i < j => s[q[i]].Score >= s[q[j]].Score)}}

TakeTopKeepsAll(s, limit) == s

\* if len(scored) > input.Limit { scored = scored[:input.Limit] }
TakeTop(s, limit) == IF Len(s) > limit THEN SubSeq(s, 1, limit) ELSE s

\* the lists a successful Score can return for the noise drawn
ScoreResults(input, noise) == {TakeTop(t, input.Limit) : t \in SortedDesc(ScoreAll(input, noise))}

(***************************************************************************)
(* Client.Score called directly with any input.                            *)
(***************************************************************************)
\* candidates in an input of a direct call
MaxCands == 3

\* the content the candidates of a direct call are drawn from: odd ids are recent
\* popular action titles, even ids year-old drama titles
PoolItem(i) == IF i % 2 = 1 THEN [Catalogue[1] EXCEPT !.ID = i] ELSE [Catalogue[2] EXCEPT !.ID = i]

\* the candidate lists of a direct call: up to MaxCands distinct items in any order
CandidateLists == UNION {{[i \in 1..n |-> PoolItem(f[i])] : f \in {g \in [1..n -> 1..MaxCands] : \A i, j \in 1..n : i # j => g[i] # g[j]}} : n \in 0..MaxCands}

\* the watch histories of a direct call
Histories == {<<>>, <<[ContentID |-> 1, Genre |-> "action"]>>, <<[ContentID |-> 1, Genre |-> "action"], [ContentID |-> 2, Genre |-> "drama"]>>}

\* the limits of a direct call
ScoreLimits == (0 - 1)..(MaxCands + 1)

\* what Score computed on the way: the preference map, and per candidate the genre
\* weight, the recency factor and the noise that went into its score
ScoreTrace(input, noise) == LET prefs == calculateGenrePreferenceWeights(input.WatchHistory) IN [prefs |-> prefs, weight |-> [i \in 1..Len(input.Candidates) |-> GenreWeight(input.Candidates[i], prefs)], recency |-> [i \in 1..Len(input.Candidates) |-> calculateRecencyFactor(input.Candidates[i].CreatedAt, Now)], noise |-> noise]

NoTrace == [prefs |-> <<>>, weight |-> <<>>, recency |-> <<>>, noise |-> <<>>]

NoScore == [err |-> <<"not returned">>, recs |-> <<>>, scored |-> <<>>, trace |-> NoTrace]

Panic == <<"panic: slice bounds out of range">>

ScoreUnused ==
    /\ spc = "idle"
    /\ scIn = [WatchHistory |-> <<>>, Candidates |-> <<>>, Limit |-> 0]
    /\ scOut = NoScore

\* Client.Score(input): the random failure, or the candidates scored, sorted and
\* cut to input.Limit; scored[:input.Limit] panics when the limit is negative
ScoreCall ==
    /\ spc = "ready"
    /\ spc' = "done"
    /\ \/ scOut' = [err |-> ModelInferenceError, recs |-> <<>>, scored |-> <<>>, trace |-> NoTrace]
       \/ \E noise \in [1..Len(scIn.Candidates) -> NoiseChoices] :
             IF scIn.Limit < 0
             THEN scOut' = [err |-> Panic, recs |-> <<>>, scored |-> ScoreAll(scIn, noise), trace |-> ScoreTrace(scIn, noise)]
             ELSE \E recs \in ScoreResults(scIn, noise) : scOut' = [err |-> Nil, recs |-> recs, scored |-> ScoreAll(scIn, noise), trace |-> ScoreTrace(scIn, noise)]
    /\ UNCHANGED <<dbUsers, batchVars, cacheVars, scIn>>

(***************************************************************************)
(* Backend calls: a call made with a canceled context fails with the       *)
(* context's error; otherwise it succeeds or the backend fails.            *)
(***************************************************************************)
BackendOutcomes(c) == IF c = "canceled" THEN {ContextCanceled} ELSE {"ok", BackendDown}

NoUser == [ID |-> 0]

GetUserByID(userID, be) == IF be # "ok" THEN [user |-> NoUser, err |-> Wrap("query user", <<be>>)] ELSE IF userID \notin dbUsers THEN [user |-> NoUser, err |-> ErrUserNotFound] ELSE [user |-> [ID |-> userID], err |-> Nil]

GetUserWatchHistoryWithGenres(userID, limit, be) == IF be # "ok" THEN [items |-> <<>>, err |-> Wrap("get watch history", <<be>>)] ELSE [items |-> [i \in 1..Min(limit, Len(watched[userID])) |-> [ContentID |-> watched[userID][i], Genre |-> ContentById(watched[userID][i]).Genre]], err |-> Nil]

\* ORDER BY popularity_score DESC
RECURSIVE ByPopularity(_)
ByPopularity(S) == IF S = {} THEN <<>> ELSE LET m == CHOOSE x \in S : \A y \in S : x.PopularityScore >= y.PopularityScore IN <<m>> \o ByPopularity(S \ {m})

GetUnwatchedContent(userID, limit, be) == IF be # "ok" THEN [items |-> <<>>, err |-> Wrap("query unwatched content", <<be>>)] ELSE LET un == ByPopularity({Catalogue[i] : i \in {j \in 1..Len(Catalogue) : \A h \in 1..Len(watched[userID]) : watched[userID][h] # Catalogue[j].ID}}) IN [items |-> SubSeq(un, 1, Min(limit, Len(un))), err |-> Nil]

\* INSERT INTO user_watch_history: the new row is the most recent
RepoAddWatchHistory(userID, contentID, be) == IF be # "ok" THEN [watched |-> watched, err |-> Wrap("insert watch history", <<be>>)] ELSE IF userID \notin dbUsers \/ contentID \notin ContentIds THEN [watched |-> watched, err |-> <<"foreign key violation">>] ELSE [watched |-> [watched EXCEPT ![userID] = <<contentID>> \o @], err |-> Nil]

(***************************************************************************)
(* Cache store.  A key is the text "rec:user:<id>:limit:<n>", held as its   *)
(* fixed parts and the decimal digits of the two numbers.                  *)
(***************************************************************************)
DigitChars == <<"0", "1", "2", "3", "4", "5", "6", "7", "8", "9">>

\* %d: the decimal digits of n
RECURSIVE Digits(_)
Digits(n) == IF n < 10 THEN <<DigitChars[n + 1]>> ELSE Digits(n \div 10) \o <<DigitChars[(n % 10) + 1]>>

buildKeyNoLimit(userID, limit) == <<"rec:user:">> \o Digits(userID)

\* fmt.Sprintf("rec:user:%d:limit:%d", userID, limit)
buildKey(userID, limit) == <<"rec:user:">> \o Digits(userID) \o <<":limit:">> \o Digits(limit)

UserPatternNoSeparator(userID) == <<"rec:user:">> \o Digits(userID)

\* "rec:user:%d:limit:*" without its final star
UserPattern(userID) == <<"rec:user:">> \o Digits(userID) \o <<":limit:">>

\* glob match of key against pat followed by a star
MatchesPattern(key, pat) == Len(key) >= Len(pat) /\ SubSeq(key, 1, Len(pat)) = pat

MarshalDropsScore(recs) == [i \in 1..Len(recs) |-> <<recs[i].ContentID, recs[i].Title, recs[i].Genre, recs[i].PopularityScore, 0>>]

\* json.Marshal of []domain.ScoredRecommendation: the field values in declaration order
Marshal(recs) == [i \in 1..Len(recs) |-> <<recs[i].ContentID, recs[i].Title, recs[i].Genre, recs[i].PopularityScore, recs[i].Score>>]

\* a decoding that loses the score field
UnmarshalDropsScore(val) == [i \in 1..Len(val) |-> [ContentID |-> val[i][1], Title |-> val[i][2], Genre |-> val[i][3], PopularityScore |-> val[i][4], Score |-> 0]]

\* json.Unmarshal into []domain.ScoredRecommendation
Unmarshal(val) == [i \in 1..Len(val) |-> [ContentID |-> val[i][1], Title |-> val[i][2], Genre |-> val[i][3], PopularityScore |-> val[i][4], Score |-> val[i][5]]]

EmptyCache == [k \in {} |-> 0]

CacheFoundNever(key, be) == FALSE

\* whether Get reports the entry found
CacheFound(key, be) == be = "ok" /\ key \in DOMAIN cache

\* Cache.Get
CacheGetResult(userID, limit, be) == LET key == buildKey(userID, limit) IN IF be # "ok" THEN [recs |-> <<>>, found |-> CacheFound(key, be), err |-> Wrap("failed to get recommendations from cache", <<be>>)] ELSE IF key \notin DOMAIN cache THEN [recs |-> <<>>, found |-> CacheFound(key, be), err |-> Nil] ELSE [recs |-> Unmarshal(cache[key].val), found |-> CacheFound(key, be), err |-> Nil]

\* Cache.Set: the entry is written with the TTL, or the backend fails
CacheSetResult(userID, limit, recs, be) == LET key == buildKey(userID, limit) IN IF be # "ok" THEN [cache |-> cache, err |-> Wrap("failed to set recommendations in cache", <<be>>)] ELSE [cache |-> [k \in DOMAIN cache \cup {key} |-> IF k = key THEN [val |-> Marshal(recs), stamp |-> "fresh", by |-> <<userID, limit>>] ELSE cache[k]], err |-> Nil]

\* the keys the scan of ClearUserCache yields
ScanKeysDefaultLimit(userID) == {k \in DOMAIN cache : k = buildKey(userID, defaultLimit)}

\* the keys SCAN yields for the pattern of the user
ScanKeys(userID) == {k \in DOMAIN cache : MatchesPattern(k, UserPattern(userID))}

\* c.client.Del
DelKey(cch, key) == [k \in DOMAIN cch \ {key} |-> cch[k]]

StampOf(key) == IF key \in DOMAIN cache THEN cache[key].stamp ELSE "none"

\* entries become "old" when a watch event of their user is persisted after they were written
MarkOld(cch, userID) == [k \in DOMAIN cch |-> IF MatchesPattern(k, UserPattern(userID)) /\ cch[k].stamp = "fresh" THEN [cch[k] EXCEPT !.stamp = "old"] ELSE cch[k]]

\* old entries are "stale" once the AddWatchHistory call that outdated them has returned
MarkStale(cch, userID) == [k \in DOMAIN cch |-> IF MatchesPattern(k, UserPattern(userID)) /\ cch[k].stamp = "old" THEN [cch[k] EXCEPT !.stamp = "stale"] ELSE cch[k]]

(***************************************************************************)
(* GetRecommendations (one step per cache, repository or model call).      *)
(***************************************************************************)
\* request slots
NumReqs == 2
\* GetRecommendations and AddWatchHistory calls made in all
MaxOps == 3

Reqs == 1..NumReqs

\* the users of the table in the cache scenarios, and an id that is no user
CacheUsers == {1, 10}

NoSuchUser == CHOOSE u \in 1..10 : u \notin CacheUsers

ReqUserIds == CacheUsers \cup {NoSuchUser}

\* limits as given by callers
ReqLimits == {0, 1}

\* the content watch events are added for beside the requests
AddContentIds == {Catalogue[1].ID}

ClampLimitNoMax(limit) == IF limit <= 0 THEN defaultLimit ELSE limit

\* if limit <= 0 { limit = defaultLimit } else if limit > maxLimit { limit = maxLimit }
ClampLimit(limit) == IF limit <= 0 THEN defaultLimit ELSE IF limit > maxLimit THEN maxLimit ELSE limit

NoReq == [userID |-> 0, given |-> 0, limit |-> 0]

EmptyLoc == [user |-> NoUser, watchHistory |-> <<>>, candidates |-> <<>>, recs |-> <<>>, err |-> Nil]

NoRet == [err |-> <<"not returned">>, recs |-> <<>>, hit |-> FALSE, stamp |-> "none"]

NoLast == [key |-> <<>>, ok |-> FALSE, recs |-> <<>>, ttl |-> FALSE, intact |-> FALSE, expired |-> FALSE]

Key(r) == buildKey(req[r].userID, req[r].limit)

\* the entry under key is the serialized list recs
Holds(cch, key, recs) == key \in DOMAIN cch /\ cch[key].val = Marshal(recs)

\* the record of an earlier call after the cache became cch and the keys of gone expired
LastAfter(l, cch, gone) == [l EXCEPT !.ttl = @ /\ l.key \notin gone, !.intact = @ /\ Holds(cch, l.key, l.recs)]

\* the operation is added to the request's log, with its error, and the list it read, computed or wrote
Logged(r, op, err, recs) == io' = [io EXCEPT ![r] = Append(@, [op |-> op, err |-> err, found |-> FALSE, recs |-> recs])]

\* the record of the slot's previous call as the call now returning found it at its lookup
PreOf(r) == IF rpc[r] \in {"idle", "returned"} THEN last[r] ELSE pre[r]

\* request r, whose key is key, returns result; the cache is cch after the step.
\* The record kept of the call says whether the entry of its key had expired
\* between the slot's previous call and its lookup.
ReturnAs(r, key, result, cch) ==
    /\ rpc' = [rpc EXCEPT ![r] = "returned"]
    /\ ret' = [ret EXCEPT ![r] = result]
    /\ loc' = [loc EXCEPT ![r] = EmptyLoc]
    /\ last' = [q \in Reqs |-> IF q = r THEN [key |-> key, ok |-> result.err = Nil, recs |-> result.recs, ttl |-> TRUE, intact |-> Holds(cch, key, result.recs), expired |-> PreOf(r).key = key /\ ~PreOf(r).ttl] ELSE LastAfter(last[q], cch, {})]

ReturnFrom(r, result, cch) == ReturnAs(r, Key(r), result, cch)

HitFallsThrough(found) == FALSE

\* if found { return cached, CacheHit: true }
HitReturns(found) == found

\* a call starts: the limit is clamped, then s.cache.Get; an error is logged.
\* The caller's context may be canceled already when the lookup is made.
CacheGet(r, userID, given) ==
    /\ rpc[r] \in {"idle", "returned"}
    /\ r \in liveReqs
    /\ userID \in askUsers
    /\ opsLeft > 0
    /\ opsLeft' = opsLeft - 1
    /\ req' = [req EXCEPT ![r] = [userID |-> userID, given |-> given, limit |-> ClampLimit(given)]]
    /\ pre' = [pre EXCEPT ![r] = last[r]]
    /\ \E c0 \in {"live", "canceled"} : \E be \in BackendOutcomes(c0) :
          LET limit == ClampLimit(given)
              g == CacheGetResult(userID, limit, be) IN
          /\ ctx' = [ctx EXCEPT ![r] = c0]
          /\ io' = [io EXCEPT ![r] = <<[op |-> "cache.Get", err |-> g.err, found |-> g.found, recs |-> g.recs]>>]
          /\ IF HitReturns(g.found)
             THEN ReturnAs(r, buildKey(userID, limit), [err |-> Nil, recs |-> g.recs, hit |-> TRUE, stamp |-> StampOf(buildKey(userID, limit))], cache)
             ELSE /\ rpc' = [rpc EXCEPT ![r] = "user"]
                  /\ ret' = [ret EXCEPT ![r] = NoRet]
                  /\ UNCHANGED <<loc, last>>
    /\ UNCHANGED <<dbUsers, scoreVars, batchVars, watched, cache, liveReqs, askUsers, apc, areq, scan, aret, cret>>

StoresAnyway(err) == TRUE

\* if err != nil { return nil, err }: the cache write is reached only without error
ProceedsToSet(err) == err = Nil

\* generateRecommendations has returned (recs, err) to GetRecommendations
GenerateDone(r, recs, err) ==
    IF ProceedsToSet(err)
    THEN /\ rpc' = [rpc EXCEPT ![r] = "set"]
         /\ loc' = [loc EXCEPT ![r] = [EmptyLoc EXCEPT !.recs = recs, !.err = err]]
         /\ UNCHANGED <<ret, last>>
    ELSE ReturnFrom(r, [err |-> err, recs |-> <<>>, hit |-> FALSE, stamp |-> "none"], cache)

GoesOnWithoutUser(err) == err # Nil /\ ~errorsIs(err, ErrUserNotFound[1])

\* user, err := s.repo.GetUserByID(ctx, userID); if err != nil { return nil, ... }
UserFetchFailed(err) == err # Nil

\* s.repo.GetUserByID
FetchUser(r) ==
    /\ rpc[r] = "user"
    /\ \E be \in BackendOutcomes(ctx[r]) :
          LET res == GetUserByID(req[r].userID, be)
              err == IF res.err = Nil \/ errorsIs(res.err, ErrUserNotFound[1]) THEN res.err ELSE Wrap("fetch user", res.err) IN
          /\ Logged(r, "repo.GetUserByID", err, <<>>)
          /\ IF UserFetchFailed(err)
             THEN GenerateDone(r, <<>>, err)
             ELSE /\ rpc' = [rpc EXCEPT ![r] = "history"]
                  /\ loc' = [loc EXCEPT ![r].user = res.user]
                  /\ UNCHANGED <<ret, last>>
    /\ UNCHANGED <<dbUsers, scoreVars, batchVars, watched, cache, req, ctx, pre, liveReqs, askUsers, apc, areq, scan, aret, cret, opsLeft>>

\* s.repo.GetUserWatchHistoryWithGenres
FetchHistory(r) ==
    /\ rpc[r] = "history"
    /\ \E be \in BackendOutcomes(ctx[r]) :
          LET res == GetUserWatchHistoryWithGenres(req[r].userID, watchHistoryLimit, be)
              err == IF res.err = Nil THEN Nil ELSE Wrap("fetch watch history", res.err) IN
          /\ Logged(r, "repo.GetUserWatchHistoryWithGenres", err, <<>>)
          /\ IF err # Nil
             THEN GenerateDone(r, <<>>, err)
             ELSE /\ rpc' = [rpc EXCEPT ![r] = "candidates"]
                  /\ loc' = [loc EXCEPT ![r].watchHistory = res.items]
                  /\ UNCHANGED <<ret, last>>
    /\ UNCHANGED <<dbUsers, scoreVars, batchVars, watched, cache, req, ctx, pre, liveReqs, askUsers, apc, areq, scan, aret, cret, opsLeft>>

\* s.repo.GetUnwatchedContent
FetchCandidates(r) ==
    /\ rpc[r] = "candidates"
    /\ \E be \in BackendOutcomes(ctx[r]) :
          LET res == GetUnwatchedContent(req[r].userID, candidatePoolSize, be)
              err == IF res.err = Nil THEN Nil ELSE Wrap("fetch candidates", res.err) IN
          /\ Logged(r, "repo.GetUnwatchedContent", err, <<>>)
          /\ IF err # Nil
             THEN GenerateDone(r, <<>>, err)
             ELSE /\ rpc' = [rpc EXCEPT ![r] = "score"]
                  /\ loc' = [loc EXCEPT ![r].candidates = res.items]
                  /\ UNCHANGED <<ret, last>>
    /\ UNCHANGED <<dbUsers, scoreVars, batchVars, watched, cache, req, ctx, pre, liveReqs, askUsers, apc, areq, scan, aret, cret, opsLeft>>

ScoreErrorRetried(err) == FALSE

\* scored, err := s.modelClient.Score(...); if err != nil { return nil, err }
ScoreErrorIsFinal(err) == err # Nil

\* s.modelClient.Score: sleeps, then fails (1.5%) or scores; it is given no context
Score(r) ==
    /\ rpc[r] = "score"
    /\ LET input == [User |-> loc[r].user, WatchHistory |-> loc[r].watchHistory, Candidates |-> loc[r].candidates, Limit |-> req[r].limit] IN
       \/ /\ Logged(r, "model.Score", ModelInferenceError, <<>>)
          /\ IF ScoreErrorIsFinal(ModelInferenceError)
             THEN GenerateDone(r, <<>>, ModelInferenceError)
             ELSE UNCHANGED <<rpc, loc, ret, last>>
       \/ \E noise \in [1..Len(input.Candidates) -> NoiseChoices] : \E scored \in ScoreResults(input, noise) :
             /\ Logged(r, "model.Score", Nil, scored)
             /\ GenerateDone(r, scored, Nil)
    /\ UNCHANGED <<dbUsers, scoreVars, batchVars, watched, cache, req, ctx, pre, liveReqs, askUsers, apc, areq, scan, aret, cret, opsLeft>>

SetErrorSurfaced(genErr, cacheErr) == IF cacheErr # Nil THEN cacheErr ELSE genErr

\* the error GetRecommendations returns after the cache write: a Set error is logged only
ErrAfterSet(genErr, cacheErr) == genErr

\* s.cache.Set, then return with CacheHit: false
CacheSet(r) ==
    /\ rpc[r] = "set"
    /\ \E be \in BackendOutcomes(ctx[r]) :
          LET s == CacheSetResult(req[r].userID, req[r].limit, loc[r].recs, be)
              err == ErrAfterSet(loc[r].err, s.err) IN
          /\ Logged(r, "cache.Set", s.err, loc[r].recs)
          /\ cache' = s.cache
          /\ ReturnFrom(r, [err |-> err, recs |-> IF err = Nil THEN loc[r].recs ELSE <<>>, hit |-> FALSE, stamp |-> "none"], s.cache)
    /\ UNCHANGED <<dbUsers, scoreVars, batchVars, watched, req, ctx, pre, liveReqs, askUsers, apc, areq, scan, aret, cret, opsLeft>>

\* the caller's context is canceled or its deadline passes while the call runs
Cancel(r) ==
    /\ rpc[r] \notin {"idle", "returned"}
    /\ ctx[r] = "live"
    /\ ctx' = [ctx EXCEPT ![r] = "canceled"]
    /\ UNCHANGED <<dbUsers, scoreVars, batchVars, watched, cache, rpc, req, loc, ret, io, last, pre, liveReqs, askUsers, apc, areq, scan, aret, cret, opsLeft>>

\* the TTL of an entry runs out
Expire(key) ==
    /\ key \in DOMAIN cache
    /\ cache' = DelKey(cache, key)
    /\ last' = [q \in Reqs |-> LastAfter(last[q], cache', {key})]
    /\ UNCHANGED <<dbUsers, scoreVars, batchVars, watched, rpc, req, ctx, loc, ret, io, pre, liveReqs, askUsers, apc, areq, scan, aret, cret, opsLeft>>

(***************************************************************************)
(* AddWatchHistory.                                                        *)
(***************************************************************************)
\* AddWatchHistory returns err; entries outdated by the call are stale from now on
AddReturns(userID, err, cres, cch) ==
    /\ apc' = "returned"
    /\ aret' = err
    /\ cret' = cres
    /\ scan' = {}
    /\ cache' = MarkStale(cch, userID)
    /\ last' = [q \in Reqs |-> LastAfter(last[q], cch, {})]

NotCalled == [err |-> <<"not called">>, had |-> {}]

\* ClearUserCache returns err
Cleared(err) == [cret EXCEPT !.err = err]

ClearsAnyway(err) == TRUE

\* if err != nil { return err }: the invalidation is reached only without error
ProceedsToClear(err) == err = Nil

ClearErrorSurfaced(clearErr) == clearErr

\* the error AddWatchHistory returns after ClearUserCache: its error is logged only
ErrAfterClear(clearErr) == Nil

\* s.repo.AddWatchHistory; on error the call returns it
Persist(userID, contentID) ==
    /\ apc \in {"idle", "returned"}
    /\ userID \in askUsers
    /\ opsLeft > 0
    /\ opsLeft' = opsLeft - 1
    /\ areq' = [userID |-> userID, contentID |-> contentID]
    /\ \E be \in BackendOutcomes("live") :
          LET res == RepoAddWatchHistory(userID, contentID, be) IN
          /\ watched' = res.watched
          /\ IF ~ProceedsToClear(res.err)
             THEN AddReturns(userID, res.err, NotCalled, cache)
             ELSE /\ apc' = "scan"
                  /\ aret' = <<"not returned">>
                  /\ cret' = NotCalled
                  /\ cache' = MarkOld(cache, userID)
                  /\ UNCHANGED <<scan, last>>
    /\ UNCHANGED <<dbUsers, scoreVars, batchVars, rpc, req, ctx, loc, ret, io, pre, liveReqs, askUsers>>

\* ClearUserCache: the SCAN for the user's pattern; a failure is logged by AddWatchHistory
ClearScan ==
    /\ apc = "scan"
    /\ \E be \in BackendOutcomes("live") :
          IF be # "ok"
          THEN AddReturns(areq.userID, ErrAfterClear(<<be>>), Cleared(<<be>>), cache)
          ELSE /\ apc' = "del"
               /\ scan' = ScanKeys(areq.userID)
               /\ cret' = [err |-> <<"not returned">>, had |-> ScanKeys(areq.userID)]
               /\ UNCHANGED <<cache, aret, last>>
    /\ UNCHANGED <<dbUsers, scoreVars, batchVars, watched, rpc, req, ctx, loc, ret, io, pre, liveReqs, askUsers, areq, opsLeft>>

\* ClearUserCache: DEL of the next key; a failure ends the loop and is logged
ClearDel(key) ==
    /\ apc = "del"
    /\ key \in scan
    /\ \E be \in BackendOutcomes("live") :
          IF be # "ok"
          THEN AddReturns(areq.userID, ErrAfterClear(Wrap("cache delete", <<be>>)), Cleared(Wrap("cache delete", <<be>>)), cache)
          ELSE /\ cache' = DelKey(cache, key)
               /\ scan' = scan \ {key}
               /\ last' = [q \in Reqs |-> LastAfter(last[q], cache', {})]
               /\ UNCHANGED <<apc, aret, cret>>
    /\ UNCHANGED <<dbUsers, scoreVars, batchVars, watched, rpc, req, ctx, loc, ret, io, pre, liveReqs, askUsers, areq, opsLeft>>

\* ClearUserCache: the iterator is exhausted; AddWatchHistory returns nil
ClearEnd ==
    /\ apc = "del"
    /\ scan = {}
    /\ AddReturns(areq.userID, ErrAfterClear(Nil), Cleared(Nil), cache)
    /\ UNCHANGED <<dbUsers, scoreVars, batchVars, watched, rpc, req, ctx, loc, ret, io, pre, liveReqs, askUsers, areq, opsLeft>>

\* no request and no AddWatchHistory is made
CacheUnused ==
    /\ watched = <<>>
    /\ cache = EmptyCache
    /\ rpc = <<>>
    /\ req = <<>>
    /\ ctx = <<>>
    /\ loc = <<>>
    /\ ret = <<>>
    /\ io = <<>>
    /\ last = <<>>
    /\ pre = <<>>
    /\ liveReqs = {}
    /\ askUsers = {}
    /\ apc = "idle"
    /\ areq = [userID |-> 0, contentID |-> 0]
    /\ scan = {}
    /\ aret = <<"not returned">>
    /\ cret = NotCalled
    /\ opsLeft = 0

NoResponse == [err |-> <<"not returned">>]

BatchCommonInit ==
    /\ userIDs = [c \in Calls |-> <<>>]
    /\ totalUsers = [c \in Calls |-> 0]
    /\ results = [c \in Calls |-> <<>>]
    /\ sem = [c \in Calls |-> 0]
    /\ wg = [c \in Calls |-> 0]
    /\ upc = [c \in Calls |-> <<>>]
    /\ uerr = [c \in Calls |-> <<>>]
    /\ bresp = [c \in Calls |-> NoResponse]

\* one call over a small table: every page, every page size, every mix of failures
InitBatch ==
    /\ BatchCommonInit
    /\ CacheUnused
    /\ ScoreUnused
    /\ \E n \in 0..MaxUsers : dbUsers = 1..n
    /\ bpc = [c \in Calls |-> IF c = 1 THEN "fetch" ELSE "idle"]
    /\ \E p \in 1..MaxPage : bpage = [c \in Calls |-> IF c = 1 THEN p ELSE 0]
    /\ \E l \in 1..MaxBatchLimit : blimit = [c \in Calls |-> IF c = 1 THEN l ELSE 0]
    /\ injected = [c \in Calls |-> IF c = 1 THEN dbUsers \X ErrKinds ELSE {}]

\* rows the seed program puts into table users
seededUsers == 20

\* one call for any page of any page size over a table whose ids have gaps, or over
\* the seeded table; a unit succeeds or finds its user missing
InitPage ==
    /\ BatchCommonInit
    /\ CacheUnused
    /\ ScoreUnused
    /\ dbUsers \in (SUBSET (1..MaxUsers)) \cup {1..seededUsers}
    /\ bpc = [c \in Calls |-> IF c = 1 THEN "fetch" ELSE "idle"]
    /\ \E p \in 1..MaxPage : bpage = [c \in Calls |-> IF c = 1 THEN p ELSE 0]
    /\ \E l \in 1..MaxBatchLimit : blimit = [c \in Calls |-> IF c = 1 THEN l ELSE 0]
    /\ injected = [c \in Calls |-> IF c = 1 THEN dbUsers \X {ErrUserNotFound} ELSE {}]

\* one call whose page is larger than the admission cap
InitGate ==
    /\ BatchCommonInit
    /\ CacheUnused
    /\ ScoreUnused
    /\ dbUsers = 1..(batchConcurrency + Overflow)
    /\ bpc = [c \in Calls |-> IF c = 1 THEN "fetch" ELSE "idle"]
    /\ bpage = [c \in Calls |-> IF c = 1 THEN 1 ELSE 0]
    /\ blimit = [c \in Calls |-> IF c = 1 THEN batchConcurrency + Overflow ELSE 0]
    /\ injected = [c \in Calls |-> IF c = 1 THEN {<<1, ModelInferenceError>>, <<1, Always>>} ELSE {}]

NextBatch ==
    \/ \E c \in Calls : FetchUserIDs(c)
    \/ \E c \in Calls : CountAndDispatch(c)
    \/ \E c \in Calls : \E i \in 1..Len(userIDs[c]) : Acquire(c, i)
    \/ \E c \in Calls : \E i \in 1..Len(userIDs[c]) : RunUnit(c, i)
    \/ \E c \in Calls : WaitAndSummarize(c)

SpecBatch == InitBatch /\ [][NextBatch]_vars

SpecGate == InitGate /\ [][NextBatch]_vars

SpecPage == InitPage /\ [][NextBatch]_vars

\* two calls running at the same time in one process, for the two pages of a table
\* of as many users as the gate is wide plus one; every unit succeeds
InitTwoCalls ==
    /\ BatchCommonInit
    /\ CacheUnused
    /\ ScoreUnused
    /\ dbUsers = 1..(batchConcurrency + 1)
    /\ bpc = [c \in Calls |-> IF c \in {1, 2} THEN "fetch" ELSE "idle"]
    /\ bpage = [c \in Calls |-> IF c \in {1, 2} THEN c ELSE 0]
    /\ blimit = [c \in Calls |-> IF c \in {1, 2} THEN (batchConcurrency \div 2) + 1 ELSE 0]
    /\ injected = [c \in Calls |-> {}]

SpecTwoCalls == InitTwoCalls /\ [][NextBatch]_vars

\* every runnable goroutine is eventually scheduled
FairSpecGate == SpecGate /\ WF_vars(NextBatch)

\* no batch call is made
BatchUnused ==
    /\ BatchCommonInit
    /\ bpc = [c \in Calls |-> "idle"]
    /\ bpage = [c \in Calls |-> 0]
    /\ blimit = [c \in Calls |-> 0]
    /\ injected = [c \in Calls |-> {}]

\* one request slot making calls one after the other, and AddWatchHistory calls beside it
InitCache ==
    /\ BatchUnused
    /\ ScoreUnused
    /\ dbUsers = CacheUsers
    /\ watched = [u \in ReqUserIds |-> <<>>]
    /\ cache = EmptyCache
    /\ rpc = [r \in Reqs |-> "idle"]
    /\ req = [r \in Reqs |-> NoReq]
    /\ ctx = [r \in Reqs |-> "live"]
    /\ loc = [r \in Reqs |-> EmptyLoc]
    /\ ret = [r \in Reqs |-> NoRet]
    /\ io = [r \in Reqs |-> <<>>]
    /\ last = [r \in Reqs |-> NoLast]
    /\ pre = [r \in Reqs |-> NoLast]
    /\ liveReqs = {1}
    /\ askUsers = {1, NoSuchUser}
    /\ apc = "idle"
    /\ areq = [userID |-> 0, contentID |-> 0]
    /\ scan = {}
    /\ aret = <<"not returned">>
    /\ cret = NotCalled
    /\ opsLeft = MaxOps

NextCache ==
    \/ \E r \in Reqs : \E u \in ReqUserIds : \E l \in ReqLimits : CacheGet(r, u, l)
    \/ \E r \in Reqs : FetchUser(r)
    \/ \E r \in Reqs : FetchHistory(r)
    \/ \E r \in Reqs : FetchCandidates(r)
    \/ \E r \in Reqs : Score(r)
    \/ \E r \in Reqs : CacheSet(r)
    \/ \E r \in Reqs : Cancel(r)
    \/ \E k \in DOMAIN cache : Expire(k)
    \/ \E u \in ReqUserIds : \E c \in AddContentIds : Persist(u, c)
    \/ ClearScan
    \/ \E k \in scan : ClearDel(k)
    \/ ClearEnd

SpecCache == InitCache /\ [][NextCache]_vars

\* two request slots, single calls or units of a batch, making MaxOps - 1 calls in
\* all for the same user, at the same time, under either limit; entries may expire
InitShared ==
    /\ BatchUnused
    /\ ScoreUnused
    /\ dbUsers = CacheUsers
    /\ watched = [u \in ReqUserIds |-> <<>>]
    /\ cache = EmptyCache
    /\ rpc = [r \in Reqs |-> "idle"]
    /\ req = [r \in Reqs |-> NoReq]
    /\ ctx = [r \in Reqs |-> "live"]
    /\ loc = [r \in Reqs |-> EmptyLoc]
    /\ ret = [r \in Reqs |-> NoRet]
    /\ io = [r \in Reqs |-> <<>>]
    /\ last = [r \in Reqs |-> NoLast]
    /\ pre = [r \in Reqs |-> NoLast]
    /\ liveReqs = {1, 2}
    /\ askUsers = {1}
    /\ apc = "idle"
    /\ areq = [userID |-> 0, contentID |-> 0]
    /\ scan = {}
    /\ aret = <<"not returned">>
    /\ cret = NotCalled
    /\ opsLeft = MaxOps - 1

NextShared ==
    \/ \E r \in Reqs : \E u \in ReqUserIds : \E l \in ReqLimits : CacheGet(r, u, l)
    \/ \E r \in Reqs : FetchUser(r)
    \/ \E r \in Reqs : FetchHistory(r)
    \/ \E r \in Reqs : FetchCandidates(r)
    \/ \E r \in Reqs : Score(r)
    \/ \E r \in Reqs : CacheSet(r)
    \/ \E k \in DOMAIN cache : Expire(k)

SpecShared == InitShared /\ [][NextShared]_vars

\* limits under which entries are stored before the invalidation scenarios start
StoredLimits == {ClampLimit(l) : l \in ReqLimits}

\* a list an earlier call has stored for a user with no history under the limit
StoredList(limit) == CHOOSE recs \in ScoreResults([User |-> NoUser, WatchHistory |-> <<>>, Candidates |-> ByPopularity({Catalogue[i] : i \in 1..Len(Catalogue)}), Limit |-> limit], [i \in 1..Len(Catalogue) |-> -5000]) : TRUE

\* AddWatchHistory calls, one after the other, over a cache that earlier calls have
\* filled for any of the users under any of the limits; entries may expire
InitInvalidate ==
    /\ BatchUnused
    /\ ScoreUnused
    /\ dbUsers = CacheUsers
    /\ watched = [u \in ReqUserIds |-> <<>>]
    /\ \E K \in SUBSET {<<u, l>> : u \in CacheUsers, l \in StoredLimits} :
          cache = [k \in {buildKey(p[1], p[2]) : p \in K} |-> LET p == CHOOSE q \in K : buildKey(q[1], q[2]) = k IN [val |-> Marshal(StoredList(p[2])), stamp |-> "fresh", by |-> p]]
    /\ rpc = [r \in Reqs |-> "idle"]
    /\ req = [r \in Reqs |-> NoReq]
    /\ ctx = [r \in Reqs |-> "live"]
    /\ loc = [r \in Reqs |-> EmptyLoc]
    /\ ret = [r \in Reqs |-> NoRet]
    /\ io = [r \in Reqs |-> <<>>]
    /\ last = [r \in Reqs |-> NoLast]
    /\ pre = [r \in Reqs |-> NoLast]
    /\ liveReqs = {}
    /\ askUsers = ReqUserIds
    /\ apc = "idle"
    /\ areq = [userID |-> 0, contentID |-> 0]
    /\ scan = {}
    /\ aret = <<"not returned">>
    /\ cret = NotCalled
    /\ opsLeft = MaxOps

NextInvalidate ==
    \/ \E u \in ReqUserIds : \E c \in ContentIds : Persist(u, c)
    \/ ClearScan
    \/ \E k \in scan : ClearDel(k)
    \/ ClearEnd
    \/ \E k \in DOMAIN cache : Expire(k)

SpecInvalidate == InitInvalidate /\ [][NextInvalidate]_vars

\* limits given by the caller of the single call of the clamping scenarios
ClampGiven == {0 - 1, 0, 1, maxLimit, maxLimit + 1}

\* one GetRecommendations call for a user, with a limit below, inside or above the
\* range, over a cache that earlier calls have filled under some of the limits
InitClamp ==
    /\ BatchUnused
    /\ ScoreUnused
    /\ dbUsers = CacheUsers
    /\ watched = [u \in ReqUserIds |-> <<>>]
    /\ \E K \in SUBSET {<<1, ClampLimit(l)>> : l \in ClampGiven} :
          cache = [k \in {buildKey(p[1], p[2]) : p \in K} |-> LET p == CHOOSE q \in K : buildKey(q[1], q[2]) = k IN [val |-> Marshal(StoredList(p[2])), stamp |-> "fresh", by |-> p]]
    /\ rpc = [r \in Reqs |-> "idle"]
    /\ req = [r \in Reqs |-> NoReq]
    /\ ctx = [r \in Reqs |-> "live"]
    /\ loc = [r \in Reqs |-> EmptyLoc]
    /\ ret = [r \in Reqs |-> NoRet]
    /\ io = [r \in Reqs |-> <<>>]
    /\ last = [r \in Reqs |-> NoLast]
    /\ pre = [r \in Reqs |-> NoLast]
    /\ liveReqs = {1}
    /\ askUsers = {1}
    /\ apc = "idle"
    /\ areq = [userID |-> 0, contentID |-> 0]
    /\ scan = {}
    /\ aret = <<"not returned">>
    /\ cret = NotCalled
    /\ opsLeft = 1

NextClamp ==
    \/ \E r \in Reqs : \E u \in ReqUserIds : \E l \in ClampGiven : CacheGet(r, u, l)
    \/ \E r \in Reqs : FetchUser(r)
    \/ \E r \in Reqs : FetchHistory(r)
    \/ \E r \in Reqs : FetchCandidates(r)
    \/ \E r \in Reqs : Score(r)
    \/ \E r \in Reqs : CacheSet(r)
    \/ \E r \in Reqs : Cancel(r)

SpecClamp == InitClamp /\ [][NextClamp]_vars

\* one direct call of Client.Score with any history, candidate list and limit
InitScore ==
    /\ BatchUnused
    /\ CacheUnused
    /\ dbUsers = {}
    /\ spc = "ready"
    /\ \E h \in Histories : \E cs \in CandidateLists : \E l \in ScoreLimits : scIn = [WatchHistory |-> h, Candidates |-> cs, Limit |-> l]
    /\ scOut = NoScore

NextScore == ScoreCall

SpecScore == InitScore /\ [][NextScore]_vars

\* items in a watch history of the weighting scenarios
MaxHist == 4

Genres == {"action", "drama", "comedy"}

\* every watch history of up to MaxHist items over the genres
GenreHistories == UNION {{[i \in 1..n |-> [ContentID |-> i, Genre |-> f[i]]] : f \in [1..n -> Genres]} : n \in 0..MaxHist}

\* one candidate of each genre
GenreCandidates == <<PoolItem(1), PoolItem(2), [ID |-> 3, Title |-> "Comedy Movie", Genre |-> "comedy", PopularityScore |-> 300, CreatedAt |-> Now]>>

\* one direct call of Client.Score for any watch history, with a candidate of each genre
InitWeights ==
    /\ BatchUnused
    /\ CacheUnused
    /\ dbUsers = {}
    /\ spc = "ready"
    /\ \E h \in GenreHistories : scIn = [WatchHistory |-> h, Candidates |-> GenreCandidates, Limit |-> Len(GenreCandidates)]
    /\ scOut = NoScore

SpecWeights == InitWeights /\ [][NextScore]_vars

\* years back to which the candidates of the recency scenarios were created
MaxYears == 2

\* one direct call of Client.Score for two candidates created half a day apart, the
\* earlier one any number of half days up to MaxYears years before the request
InitRecency ==
    /\ BatchUnused
    /\ CacheUnused
    /\ dbUsers = {}
    /\ spc = "ready"
    /\ \E age \in 0..(MaxYears * Year) : scIn = [WatchHistory |-> <<>>, Candidates |-> <<[PoolItem(1) EXCEPT !.CreatedAt = Now - age], [PoolItem(2) EXCEPT !.CreatedAt = Now - (age + 1)]>>, Limit |-> 2]
    /\ scOut = NoScore

SpecRecency == InitRecency /\ [][NextScore]_vars

(***************************************************************************)
(* Properties of the batch fan-out controller.                             *)
(***************************************************************************)
Returned(c) == bpc[c] = "returned" /\ bresp[c].err = Nil

\* the units of call c that hold an admission slot
InFlight(c) == {i \in DOMAIN upc[c] : upc[c][i] = "running"}

Waiting(c) == {i \in DOMAIN upc[c] : upc[c][i] = "acquire"}

\* C1: a returned batch has exactly one entry per requested user id, entry i carries
\* the id at input position i, and successCount + failureCount is the page length,
\* for every mix of per-user outcomes and every completion order.
C1_BatchIntegrity == \A c \in Calls : Returned(c) => /\ Len(bresp[c].Results) = Len(userIDs[c]) /\ \A i \in 1..Len(userIDs[c]) : bresp[c].Results[i].UserID = userIDs[c][i] /\ bresp[c].SuccessCount + bresp[c].FailedCount = Len(userIDs[c]) /\ userIDs[c] = GetUserIDsPaginated(bpage[c], blimit[c])

\* a full page returned with successes and failures mixed
C1_Witness == \E c \in Calls : Returned(c) /\ Len(userIDs[c]) = MaxBatchLimit /\ bresp[c].SuccessCount >= 1 /\ bresp[c].FailedCount >= 2

\* C2: the units that hold an admission slot never number more than the cap of 10,
\* also for a page larger than the cap.
C2_ConcurrencyBound == \A c \in Calls : Cardinality(InFlight(c)) <= batchConcurrency

\* the gate is full and a unit waits at it
C2_Witness == \E c \in Calls : Cardinality(InFlight(c)) = batchConcurrency /\ Waiting(c) # {} /\ Len(userIDs[c]) > batchConcurrency

\* C8: the call returns only after every dispatched unit has finished and written
\* its result: in the returned response no unit is still running or waiting, every
\* slot is written, and the response holds the slice as the units left it.
C8_WaitsForAll == \A c \in Calls : Returned(c) => /\ \A i \in 1..Len(userIDs[c]) : upc[c][i] = "done" /\ bresp[c].Results[i].Status \in {StatusSuccess, StatusFailed} /\ bresp[c].Results = results[c] /\ wg[c] = 0

\* a page whose first unit failed and whose other units succeeded has returned
C8_Witness == \E c \in Calls : Returned(c) /\ Len(userIDs[c]) = MaxBatchLimit /\ bresp[c].Results[1].Status = StatusFailed /\ bresp[c].SuccessCount = MaxBatchLimit - 1

\* what is left to do for the units of call c
Work(c) == 2 * Cardinality(Waiting(c)) + Cardinality(InFlight(c))

FanOutStep(c) == WaitAndSummarize(c) \/ \E i \in 1..Len(userIDs[c]) : Acquire(c, i) \/ RunUnit(c, i)

C9_NoDeadlock == \A c \in Calls : bpc[c] = "wait" => ENABLED FanOutStep(c)

C9_Progress == \A c \in Calls : bpc[c] = "wait" => (Work(c)' < Work(c) \/ (bpc'[c] = "returned" /\ Work(c) = 0))

C9_AllReleased == \A c \in Calls : Returned(c) => sem[c] = 0 /\ Waiting(c) = {} /\ InFlight(c) = {}

\* C9: every dispatched unit acquires a slot, completes and releases it whether it
\* succeeded or failed, and a batch of any size returns: while the call waits some
\* step of it is always possible, every step strictly reduces the work left, and
\* the returned call has every slot released.
C9_Terminates == [](C9_NoDeadlock /\ C9_AllReleased) /\ [][C9_Progress]_vars

\* a page larger than the cap has returned, its injected failure included
C9_Witness == \E c \in Calls : Returned(c) /\ Len(userIDs[c]) > batchConcurrency /\ bresp[c].FailedCount = 1 /\ sem[c] = 0

(***************************************************************************)
(* Properties of the orchestrator and the cache store.                     *)
(***************************************************************************)
Done(r) == rpc[r] = "returned"

\* the operations request r has performed
Ops(r) == {io[r][i].op : i \in 1..Len(io[r])}

CacheOps == {"cache.Get", "cache.Set"}

\* C3 (as claimed): a call that follows a returned AddWatchHistory of its user never
\* returns a list written to the cache before that mutation, whatever the outcome
\* of the invalidation.
C3_NoStaleAfterMutation == \A r \in Reqs : (Done(r) /\ ret[r].hit) => ret[r].stamp # "stale"

IsCacheError(err) == err # Nil /\ err[1] \in {"failed to get recommendations from cache", "failed to set recommendations in cache"}

\* a cache operation of request r failed
CacheFailed(r) == \E i \in 1..Len(io[r]) : io[r][i].op \in CacheOps /\ io[r][i].err # Nil

\* what generateRecommendations returned to request r: its first failing step's error, or the scored list
Generated(r) == LET steps == {i \in 1..Len(io[r]) : io[r][i].op \notin CacheOps} failed == {i \in steps : io[r][i].err # Nil} scored == {i \in steps : io[r][i].op = "model.Score"} IN IF failed # {} THEN [err |-> io[r][CHOOSE i \in failed : TRUE].err, recs |-> <<>>] ELSE IF scored # {} THEN [err |-> Nil, recs |-> io[r][CHOOSE i \in scored : TRUE].recs] ELSE [err |-> <<"no result">>, recs |-> <<>>]

\* C5: a cache error is never returned, and a call whose cache lookup or cache write
\* failed returns, with cacheHit=false, exactly what the computation gave: the fresh
\* list, or the error of the failing repository or scoring step.
C5_CacheFailureHarmless == \A r \in Reqs : Done(r) => (~IsCacheError(ret[r].err) /\ (CacheFailed(r) => (~ret[r].hit /\ ret[r].err = Generated(r).err /\ ret[r].recs = Generated(r).recs)))

\* a call whose lookup and write both failed returned a fresh list
C5_Witness == \E r \in Reqs : Done(r) /\ io[r][1].err # Nil /\ Len(io[r]) > 1 /\ io[r][Len(io[r])].op = "cache.Set" /\ io[r][Len(io[r])].err # Nil /\ ret[r].err = Nil /\ ret[r].recs # <<>>

C6_NoSetOnFailure == \A r \in Reqs : (Done(r) /\ ret[r].err # Nil) => "cache.Set" \notin Ops(r)

C6_FailingReturnKeepsCache == \A r \in Reqs : (rpc[r] # "returned" /\ rpc'[r] = "returned" /\ ret'[r].err # Nil) => cache' = cache

\* C6: a call that fails has performed no cache Set, and the step in which it
\* fails leaves the cache as it was.
C6_WriteOnlyOnSuccess == []C6_NoSetOnFailure /\ [][C6_FailingReturnKeepsCache]_vars

\* a call failed in the scoring engine while the cache held an entry
C6_Witness == \E r \in Reqs : Done(r) /\ IsModelInferenceError(ret[r].err) /\ cache # EmptyCache

C7_HitIsOnlyOp == \A r \in Reqs : (Len(io[r]) >= 1 /\ io[r][1].found) => (Done(r) /\ Len(io[r]) = 1 /\ ret[r].hit /\ ret[r].err = Nil /\ ret[r].recs = io[r][1].recs)

C7_HitKeepsCache == \A r \in Reqs : ((\E u \in ReqUserIds : \E l \in ReqLimits : CacheGet(r, u, l)) /\ io'[r][1].found) => (cache' = cache /\ Holds(cache, buildKey(req'[r].userID, req'[r].limit), ret'[r].recs))

\* C7: when the lookup finds an entry the call returns that entry's list with
\* cacheHit=true, the lookup is the only operation it performs, and the cache is
\* left as it was.
C7_HitDoesNoMoreIO == []C7_HitIsOnlyOp /\ [][C7_HitKeepsCache]_vars

\* a call was served from the cache
C7_Witness == \E r \in Reqs : Done(r) /\ ret[r].hit /\ Ops(r) = {"cache.Get"} /\ ret[r].recs # <<>> /\ ret[r].stamp = "fresh"

\* C10 (as claimed): a call whose context is canceled while it runs fails with a
\* cancellation-class error.
C10_CancelFails == \A r \in Reqs : (Done(r) /\ ctx[r] = "canceled") => errorsIs(ret[r].err, ContextCanceled)

(***************************************************************************)
(* Properties of the per-user classification and of the batch call's       *)
(* own outcome.                                                            *)
(***************************************************************************)
ErrorCodes == {"user_not_found", "model_inference_error", "internal_error"}

\* a finished unit's slot carries the code of the error its GetRecommendations call returned
C11_Classified ==
    \A c \in Calls : \A i \in DOMAIN upc[c] : upc[c][i] = "done" =>
        LET e == uerr[c][i]
            r == results[c][i]
        IN  /\ (e = Nil) => (r.Status = StatusSuccess /\ r.Error = "")
            /\ (e # Nil) => (r.Status = StatusFailed /\ r.Error \in ErrorCodes /\ r.Recommendations = <<>>)
            /\ (e = ErrUserNotFound) => (r.Error = "user_not_found")
            /\ (e = ModelInferenceError) => (r.Error = "model_inference_error")
            /\ (e # Nil /\ e # ErrUserNotFound /\ e # ModelInferenceError) => (r.Error = "internal_error")

\* a step leaves the slot and the position of every unit that does not move in it
C11_SiblingsUntouched == \A c \in Calls : \A j \in DOMAIN upc[c] : (j \in DOMAIN upc'[c] /\ upc'[c][j] = upc[c][j]) => (results'[c][j] = results[c][j] /\ uerr'[c][j] = uerr[c][j])

\* C11: every failed unit carries exactly one code of the closed vocabulary:
\* user_not_found for a missing user, model_inference_error for a scoring failure,
\* internal_error for every other failure (repository error, cancellation); and
\* classifying one unit changes no other unit's slot or progress.
C11_ClosedVocabulary == []C11_Classified /\ [][C11_SiblingsUntouched]_vars

\* a returned page holds the three codes side by side
C11_Witness == \E c \in Calls : bpc[c] = "returned" /\ bresp[c].err = Nil /\ {bresp[c].Results[i].Error : i \in DOMAIN bresp[c].Results} = ErrorCodes /\ \E i \in DOMAIN uerr[c] : errorsIs(uerr[c][i], ContextCanceled)

C12_ErrorOnlyBeforeDispatch == \A c \in Calls : bpc[c] = "returned" => (bresp[c].err = Nil \/ (bresp[c].err[1] \in {"fetch user ids", "count user"} /\ upc[c] = <<>> /\ results[c] = <<>>))

C12_DispatchedCallResponds == \A c \in Calls : (bpc[c] = "wait" /\ bpc'[c] = "returned") => (bresp'[c].err = Nil /\ bresp'[c].Results = results[c] /\ Len(bresp'[c].Results) = Len(userIDs[c]))

\* C12: once the id page and the user count have been fetched the call returns a
\* response with a nil error, whatever the per-user results, and a call that
\* returns an error is one whose id-page fetch or user count failed.
C12_UnitFailuresContained == []C12_ErrorOnlyBeforeDispatch /\ [][C12_DispatchedCallResponds]_vars

\* a call whose every unit failed returned a response
C12_Witness == \E c \in Calls : bpc[c] = "returned" /\ bresp[c].err = Nil /\ Len(bresp[c].Results) = MaxBatchLimit /\ bresp[c].FailedCount = Len(bresp[c].Results) /\ bresp[c].SuccessCount = 0

(***************************************************************************)
(* Properties of AddWatchHistory and of ClearUserCache.                    *)
(***************************************************************************)
\* AddWatchHistory has returned an error: the invalidation was not called
C13_NoClearAfterFailure == (apc = "returned" /\ aret # Nil) => cret = NotCalled

\* the step in which persisting fails returns the repository's error and leaves every entry
C13_FailedPersistKeepsCache == \A u \in ReqUserIds : \A c \in ContentIds : (Persist(u, c) /\ watched' = watched) => (apc' = "returned" /\ aret' \in {RepoAddWatchHistory(u, c, be).err : be \in BackendOutcomes("live")} \ {Nil} /\ cret' = NotCalled /\ cache' = cache)

\* C13: when persisting the watch event fails AddWatchHistory returns that error,
\* the invalidation does not run, and every cache entry, of that user and of the
\* others, is still present and unchanged.
C13_PersistFailureAborts == []C13_NoClearAfterFailure /\ [][C13_FailedPersistKeepsCache]_vars

\* persisting failed for a user with entries; they and another user's are still stored
C13_Witness == apc = "returned" /\ errorsIs(aret, BackendDown) /\ cret = NotCalled /\ areq.userID \in CacheUsers /\ \A u \in CacheUsers : Cardinality(ScanKeys(u)) = Cardinality(StoredLimits)

C14_ErrorIffNotPersisted == apc = "returned" => ((aret # Nil) <=> (cret = NotCalled))

C14_PersistDecides == /\ \A u \in ReqUserIds : \A c \in ContentIds : Persist(u, c) => ((watched' = watched) <=> (apc' = "returned"))
                      /\ (apc \in {"scan", "del"} /\ apc' = "returned") => (aret' = Nil /\ watched' = watched)

\* C14: AddWatchHistory returns an error if and only if persisting failed; once
\* the event is persisted it returns nil, whether ClearUserCache succeeded or
\* failed in its scan or in a delete.
C14_ClearErrorSwallowed == []C14_ErrorIffNotPersisted /\ [][C14_PersistDecides]_vars

\* the event was persisted, a delete failed, and AddWatchHistory returned nil
C14_Witness == apc = "returned" /\ aret = Nil /\ cret.err # Nil /\ cret.err[1] = "cache delete" /\ Head(watched[areq.userID]) = areq.contentID

\* C15: after ClearUserCache has returned without error the user has no entry
\* under any limit: every key its scan matched is gone and a lookup of the user
\* under any limit reports not found.
C15_ClearedForAllLimits == (apc = "returned" /\ cret.err = Nil) => (\A k \in cret.had : k \notin DOMAIN cache) /\ ScanKeys(areq.userID) = {} /\ \A l \in 1..maxLimit : ~CacheGetResult(areq.userID, l, "ok").found

\* a user's entries under every stored limit were cleared, the other users' were kept
C15_Witness == apc = "returned" /\ cret.err = Nil /\ Cardinality(cret.had) = Cardinality(StoredLimits) /\ Cardinality(cret.had) > 1 /\ cache # EmptyCache

(***************************************************************************)
(* Properties of the key space.                                            *)
(***************************************************************************)
\* the entries written by a Set for the pair (userID, limit)
EntriesOf(cch, userID, limit) == {k \in DOMAIN cch : cch[k].by = <<userID, limit>>}

\* each (userId, limit) pair has at most one entry
C16_OneEntryPerPair == \A k1, k2 \in DOMAIN cache : cache[k1].by = cache[k2].by => k1 = k2

\* a Set creates, changes or removes no entry of another pair
C16_SetKeepsOthers == \A r \in Reqs : (rpc[r] = "set" /\ rpc'[r] = "returned") => \A k \in DOMAIN cache : cache[k].by # <<req[r].userID, req[r].limit>> => (k \in DOMAIN cache' /\ cache'[k] = cache[k])

\* a lookup is answered from the entry of its own pair, whole, or not at all
C16_GetReadsOwnPair == \A r \in Reqs : (opsLeft' # opsLeft /\ io'[r] # <<>> /\ io'[r][1].err = Nil /\ \E u \in ReqUserIds : \E l \in ReqLimits : CacheGet(r, u, l)) => LET own == EntriesOf(cache, req'[r].userID, req'[r].limit) IN IF own = {} THEN ~io'[r][1].found ELSE (ret'[r].hit /\ \E k \in own : cache[k].val = Marshal(ret'[r].recs))

\* C16: entries are keyed by the (userId, limit) pair: a Set for one pair creates,
\* changes or removes no entry of another pair, and a Get for a pair is answered
\* from the entry written for that same pair, unchanged, or reports a miss, also
\* when the same user has an entry under another limit.
C16_LimitsIndependent == []C16_OneEntryPerPair /\ [][C16_SetKeepsOthers]_vars /\ [][C16_GetReadsOwnPair]_vars

\* with the user's entry under one limit stored, a call under another limit missed
\* and stored its own, shorter list beside it
C16_Witness == \E r \in Reqs : Done(r) /\ ~ret[r].hit /\ ret[r].err = Nil /\ io[r][1].err = Nil /\ pre[r].ok /\ pre[r].intact /\ pre[r].key # Key(r) /\ pre[r].key \in DOMAIN cache /\ Key(r) \in DOMAIN cache /\ cache[pre[r].key].by[1] = req[r].userID /\ Len(cache[pre[r].key].val) > Len(cache[Key(r)].val)

(***************************************************************************)
(* Properties of Client.Score.                                             *)
(***************************************************************************)
Scored == spc = "done" /\ scOut.err = Nil

\* C17: a successful Score returns at most input.Limit items and at most as many
\* as there are candidates, each one of the scored candidates, with scores
\* non-increasing from first to last.
C17_BoundedAndSorted == Scored => (Len(scOut.recs) <= scIn.Limit /\ Len(scOut.recs) <= Len(scIn.Candidates) /\ (\A i \in 1..Len(scOut.recs) : \E j \in 1..Len(scOut.scored) : scOut.recs[i] = scOut.scored[j]) /\ (\A i, j \in 1..Len(scOut.recs) : i < j => scOut.recs[i].Score >= scOut.recs[j].Score))

\* a list was cut to a limit below the number of candidates, which were given in ascending score order
C17_Witness == Scored /\ Len(scOut.recs) = scIn.Limit /\ scIn.Limit = MaxCands - 1 /\ Len(scIn.Candidates) = MaxCands /\ scOut.scored[1].Score < scOut.scored[MaxCands].Score /\ scOut.recs[1].Score > scOut.recs[2].Score

\* position of the candidate with the given id in the input
PosOf(id) == CHOOSE i \in 1..Len(scIn.Candidates) : scIn.Candidates[i].ID = id

\* C18 (as claimed): candidates with equal rounded scores are returned in their
\* input order, and when the cut to the limit falls among them the ones kept are
\* the earlier-positioned.
C18_StableTies ==
    Scored =>
        /\ \A i, j \in 1..Len(scOut.recs) : (i < j /\ scOut.recs[i].Score = scOut.recs[j].Score) => PosOf(scOut.recs[i].ContentID) < PosOf(scOut.recs[j].ContentID)
        /\ \A i \in 1..Len(scOut.recs) : \A c \in 1..Len(scOut.scored) : (scOut.scored[c].Score = scOut.recs[i].Score /\ \A k \in 1..Len(scOut.recs) : scOut.recs[k].ContentID # scOut.scored[c].ContentID) => PosOf(scOut.recs[i].ContentID) < c

(***************************************************************************)
(* Properties of the limit handling of GetRecommendations.                 *)
(***************************************************************************)
Started(r) == rpc[r] # "idle"

\* the cache was read without error and the call went on to compute
Missed(r) == Started(r) /\ io[r][1].err = Nil /\ ~io[r][1].found

\* the limit is in range, and it is what the lookup and the scoring call were made with
LimitInForce(r) ==
    /\ req[r].limit \in 1..maxLimit
    /\ (Done(r) /\ ret[r].hit) => (\E k \in EntriesOf(cache, req[r].userID, req[r].limit) : cache[k].val = Marshal(ret[r].recs))
    /\ (Missed(r) /\ rpc[r] # "returned") => EntriesOf(cache, req[r].userID, req[r].limit) = {}
    /\ (Done(r) /\ ~ret[r].hit /\ ret[r].err = Nil) => Len(ret[r].recs) = Min(req[r].limit, Len(Catalogue))

\* C19 (as claimed): the limit in force is the requested one clamped into
\* [1, MAX]: 1 for a request below 1, MAX for a request above MAX, and the
\* requested limit otherwise; the lookup and the scoring call are made with it.
C19_ClampedToOne == \A r \in Reqs : Started(r) => (LimitInForce(r) /\ (req[r].given < 1 => req[r].limit = 1) /\ (req[r].given > maxLimit => req[r].limit = maxLimit) /\ (req[r].given \in 1..maxLimit => req[r].limit = req[r].given))

\* C19 (amended): the same, except that a request below 1 is given the default
\* limit (10).
C19_ClampedOrDefault == \A r \in Reqs : Started(r) => (LimitInForce(r) /\ (req[r].given < 1 => req[r].limit = defaultLimit) /\ (req[r].given > maxLimit => req[r].limit = maxLimit) /\ (req[r].given \in 1..maxLimit => req[r].limit = req[r].given))

\* a call with a negative limit was served the entry stored under the default
\* limit while entries under limit 1 and MAX were stored too
C19_Witness == \E r \in Reqs : Done(r) /\ req[r].given < 0 /\ ret[r].hit /\ Len(ret[r].recs) > 1 /\ EntriesOf(cache, req[r].userID, 1) # {} /\ EntriesOf(cache, req[r].userID, maxLimit) # {}

(***************************************************************************)
(* Properties of the error kinds GetRecommendations returns.               *)
(***************************************************************************)
\* operation op of request r failed with an error of the given kind
FailedWith(r, op, kind) == \E i \in 1..Len(io[r]) : io[r][i].op = op /\ errorsIs(io[r][i].err, kind)

\* C20 (as claimed): when the scoring engine fails the returned error matches
\* ErrModelUnavailable and the handler reports model_unavailable; when the user
\* is missing it matches ErrUserNotFound and the handler reports user_not_found.
C20_KindsKept ==
    \A r \in Reqs : Done(r) =>
        /\ FailedWith(r, "model.Score", ModelInferenceError[1]) => (errorsIs(ret[r].err, ErrModelUnavailable[1]) /\ HandlerErrorCode(ret[r].err) = "model_unavailable")
        /\ FailedWith(r, "repo.GetUserByID", ErrUserNotFound[1]) => (errorsIs(ret[r].err, ErrUserNotFound[1]) /\ HandlerErrorCode(ret[r].err) = "user_not_found")

(***************************************************************************)
(* Properties of the expiry of entries.                                    *)
(***************************************************************************)
\* the entry of the call's key expired after the slot's previous call: the call misses and computes
C21_MissAfterExpiry == \A r \in Reqs : (Done(r) /\ pre[r].key = Key(r) /\ ~pre[r].ttl) => (~ret[r].hit /\ io[r][1].recs = <<>> /\ "repo.GetUserByID" \in Ops(r))

\* the previous call missed on an expired entry, succeeded and stored its list, which has been the entry since
Refilled(r) == Done(r) /\ pre[r].key = Key(r) /\ pre[r].expired /\ pre[r].ok /\ pre[r].ttl /\ pre[r].intact

Rank(id) == Cardinality({u \in dbUsers : u < id})

\* C22: a returned batch call for (page, limit) holds one result per user at the
\* positions (page-1)*limit .. page*limit-1 of the ascending-id order of all
\* users, in that order, each processed, and totalUsers is the number of all
\* users; page 1 with limit 3 over users 1..20 gives ids 1, 2, 3 and totalUsers
\* 20; a page past the end gives no results and both counts 0.
C22_PageOfUsers ==
    \A c \in Calls : Returned(c) =>
        LET first == (bpage[c] - 1) * blimit[c]
            rs == bresp[c].Results
        IN  /\ bresp[c].TotalUsers = Cardinality(dbUsers)
            /\ bresp[c].Page = bpage[c] /\ bresp[c].Limit = blimit[c]
            /\ Len(rs) = Cardinality({u \in dbUsers : Rank(u) >= first /\ Rank(u) <= first + blimit[c] - 1})
            /\ \A i \in 1..Len(rs) : (rs[i].UserID \in dbUsers /\ Rank(rs[i].UserID) = first + i - 1 /\ rs[i].Status \in {StatusSuccess, StatusFailed})
            /\ (first >= Cardinality(dbUsers)) => (rs = <<>> /\ bresp[c].SuccessCount = 0 /\ bresp[c].FailedCount = 0)
            /\ (dbUsers = 1..seededUsers /\ bpage[c] = 1 /\ blimit[c] = 3) => ([i \in 1..Len(rs) |-> rs[i].UserID] = <<1, 2, 3>> /\ bresp[c].TotalUsers = seededUsers)

\* the second page of a table whose ids have gaps has returned, cut short by the end of the table
C22_Witness == \E c \in Calls : Returned(c) /\ bpage[c] = 2 /\ blimit[c] = 2 /\ Len(bresp[c].Results) = 1 /\ bresp[c].Results[1].UserID = MaxUsers /\ bresp[c].TotalUsers = 3 /\ 1 \notin dbUsers

(***************************************************************************)
(* Properties of the genre weights.                                        *)
(***************************************************************************)
\* occurrences of genre g in the watch history of the call
GenreCount(g) == Cardinality({i \in 1..Len(scIn.WatchHistory) : scIn.WatchHistory[i].Genre = g})

\* C23: the preference map has an entry exactly for the genres of the watch
\* history, each its count divided by the history length (to the millionth);
\* {action:3, drama:1} gives 0.75 and 0.25; a candidate of a genre without entry
\* (every candidate when the history is empty) is scored with 0.1, and the
\* weight that goes into a score is never 0.
C23_GenreWeights ==
    Scored =>
        LET n == Len(scIn.WatchHistory)
            watchedGenres == {g \in Genres : GenreCount(g) > 0}
            t == scOut.trace
        IN  /\ DOMAIN t.prefs = watchedGenres
            /\ \A g \in watchedGenres : (t.prefs[g] * n <= GenreCount(g) * 1000000 /\ GenreCount(g) * 1000000 < (t.prefs[g] + 1) * n /\ t.prefs[g] > 0)
            /\ (n = 4 /\ GenreCount("action") = 3 /\ GenreCount("drama") = 1) => (t.prefs["action"] = 750000 /\ t.prefs["drama"] = 250000)
            /\ \A i \in 1..Len(scIn.Candidates) :
                  LET c == scIn.Candidates[i]
                  IN  /\ t.weight[i] = (IF c.Genre \in watchedGenres THEN t.prefs[c.Genre] ELSE 100000)
                      /\ t.weight[i] > 0
                      /\ scOut.scored[i].Score = Round3(c.PopularityScore * 400 + (t.weight[i] * 35) \div 100 + (t.recency[i] * 15) \div 100 + t.noise[i])

\* a history of three action items and a drama item: 0.75 and 0.25, and 0.1 for the comedy candidate
C23_Witness == Scored /\ Len(scIn.WatchHistory) = 4 /\ GenreCount("action") = 3 /\ GenreCount("drama") = 1 /\ scOut.trace.weight = <<750000, 250000, 100000>>

(***************************************************************************)
(* Properties of the recency factor.                                       *)
(***************************************************************************)
\* half days from the creation of candidate i to the request
AgeOf(i) == Now - scIn.Candidates[i].CreatedAt

\* C24: the recency factor that goes into a candidate's score is
\* 1 / (1 + d/365) for the d days, fractions included, from its creation to the
\* request (to the millionth): 1 for d = 0, 0.5 for d = 365, and strictly smaller
\* for the candidate created earlier.
C24_RecencyFactor ==
    Scored =>
        LET t == scOut.trace
        IN  /\ \A i \in 1..Len(scIn.Candidates) :
                  LET c == scIn.Candidates[i]
                      r == t.recency[i]
                  IN  /\ r * (Year + AgeOf(i)) <= 1000000 * Year
                      /\ 1000000 * Year < (r + 1) * (Year + AgeOf(i))
                      /\ (AgeOf(i) = 0) => (r = 1000000)
                      /\ (AgeOf(i) = Year) => (r = 500000)
                      /\ scOut.scored[i].Score = Round3(c.PopularityScore * 400 + (t.weight[i] * 35) \div 100 + (r * 15) \div 100 + t.noise[i])
            /\ \A i, j \in 1..Len(scIn.Candidates) : (AgeOf(i) >= 0 /\ AgeOf(i) < AgeOf(j)) => (t.recency[i] > t.recency[j])

\* a candidate created 365 days before the request has factor 0.5, one created half a day earlier less
C24_Witness == Scored /\ AgeOf(1) = Year /\ AgeOf(2) = Year + 1 /\ scOut.trace.recency[1] = 500000 /\ scOut.trace.recency[2] < 500000 /\ scOut.trace.recency[2] > 499000

(***************************************************************************)
(* Properties of the order of the steps of GetRecommendations.             *)
(***************************************************************************)
\* the operations of a call that misses, in the order of the code
StepOrder == <<"cache.Get", "repo.GetUserByID", "repo.GetUserWatchHistoryWithGenres", "repo.GetUnwatchedContent", "model.Score", "cache.Set">>

\* C25: the operations a call has performed are the first ones of user fetch,
\* history fetch, candidate fetch, scoring, cache write, in that order after the
\* lookup; a failing fetch or scoring step is the last operation and the call
\* has returned its error; a call whose user is absent returned ErrUserNotFound
\* having performed the lookup and the user fetch only.
C25_StepsInOrder ==
    \A r \in Reqs : Started(r) =>
        /\ Len(io[r]) <= Len(StepOrder)
        /\ \A i \in 1..Len(io[r]) : io[r][i].op = StepOrder[i]
        /\ \A i \in 2..Len(io[r]) : (io[r][i].err # Nil /\ io[r][i].op # "cache.Set") => (i = Len(io[r]) /\ Done(r) /\ ret[r].err = io[r][i].err /\ ~ret[r].hit)
        /\ (Done(r) /\ ~ret[r].hit /\ ret[r].err = Nil) => Len(io[r]) = Len(StepOrder)
        /\ (Len(io[r]) >= 2 /\ req[r].userID \notin dbUsers) => io[r][2].err # Nil
        /\ FailedWith(r, "repo.GetUserByID", ErrUserNotFound[1]) => (Done(r) /\ ret[r].err = ErrUserNotFound /\ Len(io[r]) = 2 /\ Ops(r) = {"cache.Get", "repo.GetUserByID"})

\* a call for an absent user has failed after the user fetch, the previous call of the slot having stored a list
C25_Witness == \E r \in Reqs : Done(r) /\ ret[r].err = ErrUserNotFound /\ req[r].userID \notin dbUsers /\ Len(io[r]) = 2 /\ pre[r].ok /\ pre[r].intact /\ cache # EmptyCache

(***************************************************************************)
(* Properties of a scoring failure.                                        *)
(***************************************************************************)
\* the positions in the log of request r at which the scoring engine was invoked
ScoreCalls(r) == {i \in 1..Len(io[r]) : io[r][i].op = "model.Score"}

\* C26: a call invokes the scoring engine at most once; a failing invocation
\* gives an error and no list, is the last operation of the call, and the call
\* has returned that error with no list and without a cache write.
C26_ScoreFailureTerminal ==
    \A r \in Reqs :
        /\ Cardinality(ScoreCalls(r)) <= 1
        /\ \A i \in ScoreCalls(r) : (io[r][i].err # Nil) => (io[r][i].recs = <<>> /\ i = Len(io[r]) /\ Done(r) /\ ret[r].err = io[r][i].err /\ IsModelInferenceError(ret[r].err) /\ ret[r].recs = <<>> /\ ~ret[r].hit /\ "cache.Set" \notin Ops(r))

\* a call has failed in the scoring engine after its three fetches
C26_Witness == \E r \in Reqs : Done(r) /\ IsModelInferenceError(ret[r].err) /\ Cardinality(ScoreCalls(r)) = 1 /\ Len(io[r]) = 5 /\ ret[r].recs = <<>>

(***************************************************************************)
(* Properties of the admission gate across calls.                          *)
(***************************************************************************)
\* the units in flight in the process, over all calls
RECURSIVE InFlightUpTo(_)
InFlightUpTo(c) == IF c = 0 THEN 0 ELSE Cardinality(InFlight(c)) + InFlightUpTo(c - 1)

\* C27 (as claimed): the units in flight over all the batch calls running in the
\* process never number more than the gate size of 10.
C27_ProcessWideBound == InFlightUpTo(NumCalls) <= batchConcurrency

(***************************************************************************)
(* Properties of AddWatchHistory racing with GetRecommendations.           *)
(***************************************************************************)
\* no GetRecommendations call is running
Quiet == \A r \in Reqs : rpc[r] \in {"idle", "returned"}

\* the content ids of the list stored under key
StoredIds(key) == {Unmarshal(cache[key].val)[i].ContentID : i \in 1..Len(cache[key].val)}

\* C28 (as claimed): once AddWatchHistory(u, c) has returned nil, its invalidation
\* having succeeded too, and no call is running any more, no entry of u holds a
\* list computed before c was watched: no entry of u recommends c.
C28_NoStaleEntryAfterAdd == (apc = "returned" /\ aret = Nil /\ cret.err = Nil /\ Quiet) => \A k \in DOMAIN cache : cache[k].by[1] = areq.userID => areq.contentID \notin StoredIds(k)

(***************************************************************************)
(* Properties of what the cache holds.                                     *)
(***************************************************************************)
\* every entry is stored under the key of the pair it was written for, with a
\* limit in range and a list no longer than that limit
C29_EntriesWellFormed == \A k \in DOMAIN cache : (k = buildKey(cache[k].by[1], cache[k].by[2]) /\ cache[k].by[1] \in dbUsers /\ cache[k].by[2] \in 1..maxLimit /\ Len(Unmarshal(cache[k].val)) <= cache[k].by[2])

\* a step that creates an entry or changes its list is the cache write of a call
\* for the entry's pair, which returns in that step, with cacheHit=false and no
\* error, the list stored: the one its scoring computation produced
C29_WrittenByMiss ==
    \A k \in DOMAIN cache' : (k \notin DOMAIN cache \/ cache'[k].val # cache[k].val \/ cache'[k].by # cache[k].by) =>
        \E r \in Reqs :
            /\ rpc[r] = "set" /\ rpc'[r] = "returned"
            /\ k = Key(r) /\ cache'[k].by = <<req[r].userID, req[r].limit>>
            /\ ret'[r].err = Nil /\ ~ret'[r].hit
            /\ Unmarshal(cache'[k].val) = ret'[r].recs
            /\ \E i \in ScoreCalls(r) : (io[r][i].err = Nil /\ io[r][i].recs = ret'[r].recs)

\* a call that returns with cacheHit=true returns the list of the entry of its pair
C29_HitReturnsEntry ==
    \A r \in Reqs : ((\E u \in ReqUserIds : \E l \in ReqLimits : CacheGet(r, u, l)) /\ rpc'[r] = "returned" /\ ret'[r].hit) =>
        LET k == buildKey(req'[r].userID, req'[r].limit)
        IN  /\ k \in DOMAIN cache
            /\ cache[k].by = <<req'[r].userID, req'[r].limit>>
            /\ ret'[r].recs = Unmarshal(cache[k].val)
            /\ Len(ret'[r].recs) <= req'[r].limit

\* C29: each cache entry of (u, l) holds exactly the list a successful scoring
\* computation for u under limit l produced and its call returned with
\* cacheHit=false; so a list returned with cacheHit=true is no longer than l and
\* is a list returned before for the same (u, l).
C29_EntriesAreResults == []C29_EntriesWellFormed /\ [][C29_WrittenByMiss]_vars /\ [][C29_HitReturnsEntry]_vars

\* one slot missed and stored its list, cut to the limit, and the other slot was served that list
C29_Witness == \E r, q \in Reqs : r # q /\ Done(r) /\ Done(q) /\ ret[r].err = Nil /\ ~ret[r].hit /\ ret[q].hit /\ Key(q) = Key(r) /\ ret[q].recs = ret[r].recs /\ Len(ret[r].recs) = req[r].limit /\ Holds(cache, Key(r), ret[r].recs)

(***************************************************************************)
(* Properties of the invalidation towards other users.                     *)
(***************************************************************************)
\* the keys of the user's pairs
KeysOfUser(userID) == {buildKey(userID, l) : l \in 1..maxLimit}

\* the keys the scan of an invalidation matched, and has yet to delete, are keys of its user
C30_ScanYieldsOwnKeys == (apc \in {"del", "returned"} => cret.had \subseteq KeysOfUser(areq.userID)) /\ (apc = "del" => scan \subseteq KeysOfUser(areq.userID))

\* a step of AddWatchHistory or of its ClearUserCache leaves every entry of every other user
C30_StepKeepsOthers == (apc' # apc \/ scan' # scan \/ cret' # cret) => \A k \in DOMAIN cache : cache[k].by[1] # areq'.userID => (k \in DOMAIN cache' /\ cache'[k] = cache[k])

\* C30: invalidating user u removes and changes no entry of another user, also
\* of a user whose id begins with the decimal digits of u (1 and 10).
C30_OthersUntouched == []C30_ScanYieldsOwnKeys /\ [][C30_StepKeepsOthers]_vars

\* user 1 was invalidated, its entries under every stored limit deleted, and user 10 has all of its entries
C30_Witness == apc = "returned" /\ cret.err = Nil /\ areq.userID = 1 /\ Cardinality(cret.had) = Cardinality(StoredLimits) /\ (\A l \in StoredLimits : EntriesOf(cache, 1, l) = {} /\ EntriesOf(cache, 10, l) # {}) /\ 10 \in CacheUsers

====
